---- MODULE Spec2Model ----
(***************************************************************************)
(* Model of streamlit_app.py: the Open-Meteo fetch behind st.cache_data,   *)
(* the data_dict loop, the st.stop() guard and aggregate_data (pandas      *)
(* resample + agg), for the Malaysia regional weather dashboard.           *)
(*                                                                         *)
(* Dates are day numbers since 1970-01-01 (numpy datetime64[D]).  A cell   *)
(* value is a rational [nan, num, den]; NaN is the record with nan = TRUE. *)
(* pandas semantics modelled are those of pandas 1.x / 2.x, where the      *)
(* resample rules "W", "M", "Y" mean W-SUN, month end and year end, with   *)
(* closed = label = "right", and rule "D" has closed = label = "left".     *)
(***************************************************************************)
EXTENDS Integers, Sequences, FiniteSets, TLC

VARIABLES
    pc,             \* position of the script run
    coords,         \* region -> <<lat, lon>> of this run (line 63)
    todo,           \* regions the current loop has still to visit
    start_date,     \* first year of year_range (line 145)
    end_date,       \* last year of year_range (line 146)
    plot_freq,      \* line 148
    download_freq,  \* line 149
    cache,          \* st.cache_data store of get_weather_data: key -> frame
    http_requests,  \* key -> number of requests.get calls issued for it
    first_result,   \* key -> the frame the first call with that key returned
    last_fetch,     \* the last return of get_weather_data: <<key, frame, how>>
    heap,           \* object store: reference -> DataFrame
    data_dict,      \* region -> reference of its daily frame (line 175)
    parts,          \* the list that line 209 hands to pd.concat
    download_df,    \* line 209
    agg_data_dict,  \* line 224
    last_call,      \* the arguments of the last aggregate_data call
    raised,         \* the exception that ended the run, or "none"
    freq_arg,       \* the granularity of a direct aggregate_data call
    ret             \* what a direct aggregate_data call returned

vars == <<pc, coords, todo, start_date, end_date, plot_freq, download_freq,
          cache, http_requests, first_result, last_fetch, heap, data_dict,
          parts, download_df, agg_data_dict, last_call, raised, freq_arg, ret>>

----------------------------------------------------------------------------
(* Bounds *)

\* Most rows of a daily frame handed directly to aggregate_data.
MaxRows == 3

\* Cap of the per-key request counter.
MaxRequests == 2

----------------------------------------------------------------------------
(* Calendar: pandas Timestamp arithmetic on day numbers *)

\* Day number of the civil date y-m-d.
DaysFromCivil(y, m, d) ==
    LET yy  == IF m <= 2 THEN y - 1 ELSE y
        era == yy \div 400
        yoe == yy - era * 400
        mp  == IF m > 2 THEN m - 3 ELSE m + 9
        doy == (153 * mp + 2) \div 5 + d - 1
        doe == yoe * 365 + yoe \div 4 - yoe \div 100 + doy
    IN  era * 146097 + doe - 719468

\* The civil date [y, m, d] of day number n.
CivilFromDays(n) ==
    LET z   == n + 719468
        era == z \div 146097
        doe == z - era * 146097
        yoe == (doe - doe \div 1460 + doe \div 36524 - doe \div 146096) \div 365
        doy == doe - (365 * yoe + yoe \div 4 - yoe \div 100)
        mp  == (5 * doy + 2) \div 153
        d   == doy - (153 * mp + 2) \div 5 + 1
        m   == IF mp < 10 THEN mp + 3 ELSE mp - 9
        y   == yoe + era * 400 + (IF m <= 2 THEN 1 ELSE 0)
    IN  [y |-> y, m |-> m, d |-> d]

\* Timestamp.weekday(): Monday = 0 .. Sunday = 6 (1970-01-01 was a Thursday).
Weekday(n) == (n + 3) % 7

YearOf(n) == CivilFromDays(n).y

MonthOf(n) == CivilFromDays(n).m

\* The last day of the month of n.
MonthEnd(n) ==
    LET c == CivilFromDays(n)
    IN  IF c.m = 12 THEN DaysFromCivil(c.y + 1, 1, 1) - 1
        ELSE DaysFromCivil(c.y, c.m + 1, 1) - 1

\* December 31 of the year of n.
YearEnd(n) == DaysFromCivil(YearOf(n) + 1, 1, 1) - 1

\* The bin label resample(rule) gives the bin that holds day n: the day itself
\* for "D", else the offset's anchor at or after n (Week(weekday=6), MonthEnd,
\* YearEnd, each with closed = label = "right").
BinLabel(rule, n) ==
    CASE rule = "D" -> n
      [] rule = "W" -> n + (6 - Weekday(n))
      [] rule = "M" -> MonthEnd(n)
      [] rule = "Y" -> YearEnd(n)

\* The label that follows label a in the resampler's date_range.
NextLabel(rule, a) == BinLabel(rule, a + 1)

----------------------------------------------------------------------------
(* Cell values *)

NaN == [nan |-> TRUE, num |-> 0, den |-> 1]

Num(n) == [nan |-> FALSE, num |-> n, den |-> 1]

RECURSIVE GCD(_, _)
GCD(a, b) == IF b = 0 THEN a ELSE GCD(b, a % b)

\* The quotient s / c (s >= 0, c > 0) in lowest terms.
Ratio(s, c) ==
    LET g == GCD(s, c)
    IN  [nan |-> FALSE, num |-> s \div g, den |-> c \div g]

----------------------------------------------------------------------------
(* DataFrames *)

\* Variant of agg_spec: precipitation averaged instead of summed.
agg_spec_mean ==
    [temperature_2m_min          |-> "min",
     temperature_2m_mean         |-> "mean",
     temperature_2m_max          |-> "max",
     precipitation_sum           |-> "mean",
     wind_speed_10m_mean         |-> "mean",
     wind_speed_10m_max          |-> "max",
     wind_direction_10m_dominant |-> "mean"]

\* The dict handed to .agg(): column -> statistic.
agg_spec ==
    [temperature_2m_min          |-> "min",
     temperature_2m_mean         |-> "mean",
     temperature_2m_max          |-> "max",
     precipitation_sum           |-> "sum",
     wind_speed_10m_mean         |-> "mean",
     wind_speed_10m_max          |-> "max",
     wind_direction_10m_dominant |-> "mean"]

AggColumns == DOMAIN agg_spec

\* The columns of a frame built from the "daily" object of a response.
DailyColumns == AggColumns \cup {"time", "region", "date"}

\* pd.DataFrame(): no columns, no rows.
EmptyDataFrame == [columns |-> {}, index |-> "RangeIndex", data |-> <<>>]

\* A daily frame: data maps each date to its row (readings and region).
DailyFrame(rows) == [columns |-> DailyColumns, index |-> "RangeIndex", data |-> rows]

\* DataFrame.empty: some axis has length 0.
empty(df) == df.columns = {} \/ DOMAIN df.data = {}

SetMin(S) == CHOOSE x \in S : \A y \in S : x <= y

SetMax(S) == CHOOSE x \in S : \A y \in S : x >= y

\* The sum of column col over the dates S.
RECURSIVE SumOver(_, _, _)
SumOver(data, col, S) ==
    IF S = {} THEN 0
    ELSE LET d == CHOOSE x \in S : TRUE
         IN  data[d][col].num + SumOver(data, col, S \ {d})

\* One statistic of .agg() over the cells of column col at the dates S, NaN
\* cells skipped (skipna): min, max and mean of no value are NaN, the sum of no
\* value is 0 (min_count = 0).
agg_func(how, data, col, S) ==
    LET present == {d \in S : ~data[d][col].nan}
        nums    == {data[d][col].num : d \in present}
    IN  CASE how = "min"  -> IF present = {} THEN NaN ELSE Num(SetMin(nums))
          [] how = "max"  -> IF present = {} THEN NaN ELSE Num(SetMax(nums))
          [] how = "mean" -> IF present = {} THEN NaN
                             ELSE Ratio(SumOver(data, col, present), Cardinality(present))
          [] how = "sum"  -> Num(SumOver(data, col, present))

\* The labels of the resampler's bins: every anchor from the bin of the first
\* date to the bin of the last date, with or without rows in it.
RECURSIVE LabelRange(_, _, _)
LabelRange(rule, a, last) ==
    IF a > last THEN <<>>
    ELSE <<a>> \o LabelRange(rule, NextLabel(rule, a), last)

\* Variant of resample_agg: each bin labelled with its first day (label = "left").
resample_agg_left(df, rule) ==
    LET dates  == DOMAIN df.data
        labels == IF dates = {} THEN <<>>
                  ELSE LabelRange(rule, BinLabel(rule, SetMin(dates)),
                                  BinLabel(rule, SetMax(dates)))
        bin(a) == {d \in dates : BinLabel(rule, d) = a}
        left(a) == CASE rule = "D" -> a
                     [] rule = "W" -> a - 6
                     [] rule = "M" -> DaysFromCivil(YearOf(a), MonthOf(a), 1)
                     [] rule = "Y" -> DaysFromCivil(YearOf(a), 1, 1)
    IN  [i \in 1..Len(labels) |->
            [c \in AggColumns \cup {"date"} |->
                IF c = "date" THEN Num(left(labels[i]))
                ELSE agg_func(agg_spec[c], df.data, c, bin(labels[i]))]]

\* df.resample(rule).agg(agg_spec).reset_index(): one row per bin label, in
\* ascending order, the label in column "date".
resample_agg(df, rule) ==
    LET dates  == DOMAIN df.data
        labels == IF dates = {} THEN <<>>
                  ELSE LabelRange(rule, BinLabel(rule, SetMin(dates)),
                                  BinLabel(rule, SetMax(dates)))
        bin(a) == {d \in dates : BinLabel(rule, d) = a}
    IN  [i \in 1..Len(labels) |->
            [c \in AggColumns \cup {"date"} |->
                IF c = "date" THEN Num(labels[i])
                ELSE agg_func(agg_spec[c], df.data, c, bin(labels[i]))]]

----------------------------------------------------------------------------
(* aggregate_data *)

freq_map == [Daily |-> "D", Weekly |-> "W", Monthly |-> "M", Yearly |-> "Y"]

\* Variant of freq_map_get: the fallback rule is "W".
freq_map_get_weekly(freq) == IF freq \in DOMAIN freq_map THEN freq_map[freq] ELSE "W"

\* freq_map.get(freq, "D")
freq_map_get(freq) == IF freq \in DOMAIN freq_map THEN freq_map[freq] ELSE "D"

\* Variant of df_copy: no copy, the caller's object itself.
df_alias(h, ref) == [heap |-> h, ref |-> ref]

\* df.copy(): a new object "local" with the content of ref.
df_copy(h, ref) ==
    [heap |-> [r \in DOMAIN h \cup {"local"} |-> IF r = "local" THEN h[ref] ELSE h[r]],
     ref  |-> "local"]

\* df.set_index("date", inplace=True): KeyError when there is no such column,
\* else the object ref itself is changed.
set_index(h, ref) ==
    IF "date" \notin h[ref].columns
    THEN [heap |-> h, raised |-> "KeyError"]
    ELSE [heap |-> [h EXCEPT ![ref].columns = @ \ {"date"}, ![ref].index = "date"],
          raised |-> "none"]

\* The store once the function's local name is gone.
Release(h) == [r \in DOMAIN h \ {"local"} |-> h[r]]

\* aggregate_data(df, freq), df the object at ref: the store afterwards, the
\* exception raised ("none" if none) and the frame returned (its rows in order).
aggregate_data(h, ref, freq) ==
    LET c    == df_copy(h, ref)
        s    == set_index(c.heap, c.ref)
        df   == s.heap[c.ref]
        rule == freq_map_get(freq)
        fail(e) == [heap |-> Release(s.heap), raised |-> e, value |-> <<>>]
    IN  IF s.raised # "none" THEN fail(s.raised)
        ELSE IF ~(AggColumns \subseteq df.columns) THEN fail("KeyError")
        ELSE IF "region" \notin df.columns THEN fail("KeyError")
        ELSE IF DOMAIN df.data = {} THEN fail("IndexError")
        ELSE LET df_agg == resample_agg(df, rule)
                 region == df.data[SetMin(DOMAIN df.data)].region
             IN  [heap   |-> Release(s.heap),
                  raised |-> "none",
                  value  |-> [i \in 1..Len(df_agg) |->
                                [c2 \in AggColumns \cup {"date", "region"} |->
                                    IF c2 = "region" THEN region ELSE df_agg[i][c2]]]]

----------------------------------------------------------------------------
(* Inputs *)

region_coords ==
    [Selangor |-> <<30738, 1015183>>, KualaLumpur |-> <<31390, 1016869>>]

Regions == DOMAIN region_coords

\* One daily row of the response: the seven readings, and the region column.
Reading(region, tmin, tmean, tmax, precip, wmean, wmax, wdir) ==
    [temperature_2m_min          |-> tmin,
     temperature_2m_mean         |-> tmean,
     temperature_2m_max          |-> tmax,
     precipitation_sum           |-> precip,
     wind_speed_10m_mean         |-> wmean,
     wind_speed_10m_max          |-> wmax,
     wind_direction_10m_dominant |-> wdir,
     region                      |-> region]

Dry(region)    == Reading(region, Num(22), Num(24), Num(27), Num(0), Num(3), Num(6), Num(90))

Shower(region) == Reading(region, Num(23), Num(25), Num(29), Num(5), Num(4), Num(8), Num(180))

Storm(region)  == Reading(region, Num(24), Num(30), Num(33), Num(10), Num(5), Num(9), Num(270))

NoRain(region) == Reading(region, Num(22), Num(24), Num(27), NaN, Num(3), Num(6), Num(90))

RainOnly(region) == Reading(region, NaN, NaN, NaN, Num(5), NaN, NaN, NaN)

AllNull(region) == Reading(region, NaN, NaN, NaN, NaN, NaN, NaN, NaN)

\* The rows a response may hold for one day.
DailyReadings(region) ==
    {Dry(region), Shower(region), Storm(region), NoRain(region), RainOnly(region),
     AllNull(region)}

\* The days a response may hold: a Sunday that ends a week, a month and a
\* year, the three days after it, and a Monday two weeks later.
Dates ==
    {DaysFromCivil(2023, 12, 31), DaysFromCivil(2024, 1, 1), DaysFromCivil(2024, 1, 2),
     DaysFromCivil(2024, 1, 3), DaysFromCivil(2024, 1, 15)}

\* The daily frames of a region with at most n rows.
DailyFrames(region, n) ==
    {DailyFrame(rows) :
        rows \in UNION {[D -> DailyReadings(region)] :
                            D \in {S \in SUBSET Dates : Cardinality(S) \in 1..n}}}

\* What aggregate_data is handed when called directly: pd.DataFrame(), a frame
\* with the columns and no row, or a daily frame.
DirectFrames ==
    {EmptyDataFrame, DailyFrame(<<>>)} \cup DailyFrames("KualaLumpur", MaxRows)

Granularities == DOMAIN freq_map

\* The granularity tokens of a direct call, one of them not in freq_map.
FreqTokens == Granularities \cup {"Hourly"}

NoReturn == [raised |-> "pending", value |-> <<>>]

NoCall == [df |-> EmptyDataFrame, freq |-> "none"]

NoFetch == <<>>

----------------------------------------------------------------------------
(* A direct call of aggregate_data(df, freq) *)

InitAgg ==
    /\ pc = "call"
    /\ heap \in {[arg |-> df] : df \in DirectFrames}
    /\ freq_arg \in FreqTokens
    /\ ret = NoReturn
    /\ last_call = NoCall
    /\ coords = <<>>
    /\ todo = <<>>
    /\ start_date = 2024
    /\ end_date = 2024
    /\ plot_freq = "Daily"
    /\ download_freq = "Daily"
    /\ cache = <<>>
    /\ http_requests = <<>>
    /\ first_result = <<>>
    /\ last_fetch = NoFetch
    /\ data_dict = <<>>
    /\ parts = <<>>
    /\ download_df = <<>>
    /\ agg_data_dict = <<>>
    /\ raised = "none"

CallAggregateData ==
    /\ pc = "call"
    /\ LET r == aggregate_data(heap, "arg", freq_arg)
       IN  /\ heap' = r.heap
           /\ ret' = [raised |-> r.raised, value |-> r.value]
    /\ last_call' = [df |-> heap["arg"], freq |-> freq_arg]
    /\ pc' = "returned"
    /\ UNCHANGED <<coords, todo, start_date, end_date, plot_freq, download_freq,
                   cache, http_requests, first_result, last_fetch, data_dict,
                   parts, download_df, agg_data_dict, raised, freq_arg>>

NextAgg == CallAggregateData

SpecAgg == InitAgg /\ [][NextAgg]_vars

----------------------------------------------------------------------------
(* The script: one run per widget interaction *)

\* The year ranges of the slider (line 144) that a run may select.
YearRanges == {<<2023, 2024>>, <<2024, 2024>>}

\* The orders in which the multiselect (line 66) may list its regions.
Selections ==
    {sel \in UNION {[1..n -> Regions] : n \in 0..Cardinality(Regions)} :
        \A i, j \in DOMAIN sel : i # j => sel[i] # sel[j]}

\* The argument tuple (lat, lon, start_date, end_date, region) of a fetch.
Key(region, y0, y1) ==
    <<region_coords[region][1], region_coords[region][2], y0, y1, region>>

Keys == {Key(r, yr[1], yr[2]) : r \in Regions, yr \in YearRanges}

January(region) ==
    DailyFrame((DaysFromCivil(2024, 1, 1) :> Dry(region))
            @@ (DaysFromCivil(2024, 1, 2) :> Shower(region))
            @@ (DaysFromCivil(2024, 1, 3) :> Storm(region)))

NewYear(region) ==
    DailyFrame((DaysFromCivil(2023, 12, 31) :> NoRain(region))
            @@ (DaysFromCivil(2024, 1, 2) :> Shower(region)))

\* The frames line 167-169 may build from a response to the request for
\* region over the years y0..y1: days of those years, the first of them in y0.
Responses(region, y0, y1) ==
    {f \in {January(region), NewYear(region)} :
        /\ \A d \in DOMAIN f.data : YearOf(d) \in y0..y1
        /\ YearOf(SetMin(DOMAIN f.data)) = y0}

\* st.cache_data: the entry of key, if any.
cache_hit(c, key) == key \in DOMAIN c

\* Variant of cache_write: an empty frame is not kept.
cache_write_nonempty(c, key, df) ==
    IF empty(df) THEN c
    ELSE [k \in DOMAIN c \cup {key} |-> IF k = key THEN df ELSE c[k]]

\* st.cache_data: the store once the value returned for key is kept.
cache_write(c, key, df) ==
    [k \in DOMAIN c \cup {key} |-> IF k = key THEN df ELSE c[k]]

\* Variant of keep_frame: every frame is kept.
keep_any(df) == TRUE

\* Line 178: the frame is kept in data_dict.
keep_frame(df) == ~empty(df)

\* Line 181: nothing was kept.
no_data(dd) == DOMAIN dd = {}

\* The keys of dd in the order of the sequence order (dict insertion order).
InOrder(order, dd) == SelectSeq(order, LAMBDA r : r \in DOMAIN dd)

Init ==
    /\ pc = "idle"
    /\ coords = <<>>
    /\ todo = <<>>
    /\ start_date = 2024
    /\ end_date = 2024
    /\ plot_freq = "Daily"
    /\ download_freq = "Daily"
    /\ cache = <<>>
    /\ http_requests = [k \in Keys |-> 0]
    /\ first_result = <<>>
    /\ last_fetch = NoFetch
    /\ heap = <<>>
    /\ data_dict = <<>>
    /\ parts = <<>>
    /\ download_df = <<>>
    /\ agg_data_dict = <<>>
    /\ last_call = NoCall
    /\ raised = "none"
    /\ freq_arg = "none"
    /\ ret = NoReturn

\* Lines 58-149 and 175: a widget interaction starts the script again, from
\* the top, with the widgets' values; the cache outlives the run.
Rerun ==
    /\ pc \in {"idle", "done", "stopped", "crashed"}
    /\ \E sel \in Selections, yr \in YearRanges, pf \in Granularities, df \in Granularities :
        /\ coords' = sel
        /\ todo' = sel
        /\ start_date' = yr[1]
        /\ end_date' = yr[2]
        /\ plot_freq' = pf
        /\ download_freq' = df
    /\ heap' = <<>>
    /\ data_dict' = <<>>
    /\ parts' = <<>>
    /\ download_df' = <<>>
    /\ agg_data_dict' = <<>>
    /\ last_fetch' = NoFetch
    /\ last_call' = NoCall
    /\ raised' = "none"
    /\ pc' = "fetch"
    /\ UNCHANGED <<cache, http_requests, first_result, freq_arg, ret>>

\* Lines 177-179 with the frame df that get_weather_data returned for region,
\* from the cache or from a request.
LoopBody(region, key, df, how) ==
    /\ last_fetch' = <<key, df, how>>
    /\ first_result' = IF key \in DOMAIN first_result THEN first_result
                       ELSE cache_write(first_result, key, df)
    /\ IF keep_frame(df)
       THEN /\ data_dict' = [r \in DOMAIN data_dict \cup {region} |->
                                IF r = region THEN region ELSE data_dict[r]]
            /\ heap' = [r \in DOMAIN heap \cup {region} |->
                                IF r = region THEN df ELSE heap[r]]
       ELSE UNCHANGED <<data_dict, heap>>
    /\ todo' = Tail(todo)

\* Line 177, the arguments already cached: no request, the cached frame.
GetWeatherDataCached ==
    /\ pc = "fetch"
    /\ todo # <<>>
    /\ LET region == Head(todo)
           key    == Key(region, start_date, end_date)
       IN  /\ cache_hit(cache, key)
           /\ LoopBody(region, key, cache[key], "cached")
    /\ UNCHANGED <<pc, coords, start_date, end_date, plot_freq, download_freq,
                   cache, http_requests, parts, download_df, agg_data_dict,
                   last_call, raised, freq_arg, ret>>

\* Line 177, the arguments not cached: lines 156-173 run, with one request;
\* the frame built from the response, or pd.DataFrame() after any exception,
\* is returned and cached.
GetWeatherDataFetch ==
    /\ pc = "fetch"
    /\ todo # <<>>
    /\ LET region == Head(todo)
           key    == Key(region, start_date, end_date)
       IN  /\ ~cache_hit(cache, key)
           /\ http_requests[key] < MaxRequests
           /\ http_requests' = [http_requests EXCEPT ![key] = @ + 1]
           /\ \E df \in Responses(region, start_date, end_date) \cup {EmptyDataFrame} :
                /\ cache' = cache_write(cache, key, df)
                /\ LoopBody(region, key, df, "fetched")
    /\ UNCHANGED <<pc, coords, start_date, end_date, plot_freq, download_freq,
                   parts, download_df, agg_data_dict, last_call, raised,
                   freq_arg, ret>>

\* Lines 181-183: warn and st.stop() when no region has data.
CheckData ==
    /\ pc = "fetch"
    /\ todo = <<>>
    /\ IF no_data(data_dict)
       THEN /\ pc' = "stopped"
            /\ todo' = <<>>
       ELSE /\ pc' = "download"
            /\ todo' = InOrder(coords, data_dict)
    /\ UNCHANGED <<coords, start_date, end_date, plot_freq, download_freq, cache,
                   http_requests, first_result, last_fetch, heap, data_dict,
                   parts, download_df, agg_data_dict, last_call, raised,
                   freq_arg, ret>>

\* What follows one aggregate_data(df, freq) call of a comprehension over
\* data_dict, r what the call gave: an exception ends the run, else the frame
\* returned is kept.
Comprehend(region, r) ==
    /\ heap' = r.heap
    /\ raised' = r.raised
    /\ IF r.raised # "none"
       THEN /\ pc' = "crashed"
            /\ todo' = <<>>
            /\ UNCHANGED <<parts, agg_data_dict>>
       ELSE /\ pc' = pc
            /\ todo' = Tail(todo)
            /\ IF pc = "download"
               THEN /\ parts' = Append(parts, r.value)
                    /\ UNCHANGED agg_data_dict
               ELSE /\ agg_data_dict' =
                          [x \in DOMAIN agg_data_dict \cup {region} |->
                              IF x = region THEN r.value ELSE agg_data_dict[x]]
                    /\ UNCHANGED parts

RECURSIVE Concat(_)
Concat(frames) ==
    IF frames = <<>> THEN <<>> ELSE Head(frames) \o Concat(Tail(frames))

\* Line 209, one element of the list: aggregate_data(df, download_freq).
AggregateDownload ==
    /\ pc = "download"
    /\ todo # <<>>
    /\ last_call' = [df |-> heap[data_dict[Head(todo)]], freq |-> download_freq]
    /\ Comprehend(Head(todo), aggregate_data(heap, data_dict[Head(todo)], download_freq))
    /\ UNCHANGED <<coords, start_date, end_date, plot_freq, download_freq, cache,
                   http_requests, first_result, last_fetch, data_dict,
                   download_df, freq_arg, ret>>

\* Lines 209-217: pd.concat of the list, and the download button.
ConcatDownload ==
    /\ pc = "download"
    /\ todo = <<>>
    /\ download_df' = Concat(parts)
    /\ pc' = "plot"
    /\ todo' = InOrder(coords, data_dict)
    /\ UNCHANGED <<coords, start_date, end_date, plot_freq, download_freq, cache,
                   http_requests, first_result, last_fetch, heap, data_dict,
                   parts, agg_data_dict, last_call, raised, freq_arg, ret>>

\* Line 224, one entry of the dict: aggregate_data(df, plot_freq).
AggregatePlot ==
    /\ pc = "plot"
    /\ todo # <<>>
    /\ last_call' = [df |-> heap[data_dict[Head(todo)]], freq |-> plot_freq]
    /\ Comprehend(Head(todo), aggregate_data(heap, data_dict[Head(todo)], plot_freq))
    /\ UNCHANGED <<coords, start_date, end_date, plot_freq, download_freq, cache,
                   http_requests, first_result, last_fetch, data_dict,
                   download_df, freq_arg, ret>>

\* Lines 226-375: the charts, the wind rose and the forecast section.
Render ==
    /\ pc = "plot"
    /\ todo = <<>>
    /\ pc' = "done"
    /\ UNCHANGED <<coords, todo, start_date, end_date, plot_freq, download_freq,
                   cache, http_requests, first_result, last_fetch, heap,
                   data_dict, parts, download_df, agg_data_dict, last_call,
                   raised, freq_arg, ret>>

Next ==
    \/ Rerun
    \/ GetWeatherDataCached
    \/ GetWeatherDataFetch
    \/ CheckData
    \/ AggregateDownload
    \/ ConcatDownload
    \/ AggregatePlot
    \/ Render

Spec == Init /\ [][Next]_vars

----------------------------------------------------------------------------
(* Properties of a direct call, stated for SpecAgg *)

\* The start of the bucket of day d as the specification defines buckets: the
\* day, the Monday of its ISO week, the first day of its month, of its year.
Bucket(freq, d) ==
    CASE freq = "Daily"   -> d
      [] freq = "Weekly"  -> d - Weekday(d)
      [] freq = "Monthly" -> DaysFromCivil(YearOf(d), MonthOf(d), 1)
      [] freq = "Yearly"  -> DaysFromCivil(YearOf(d), 1, 1)

\* The frame the call was handed, and its dates.
Input == last_call.df

InputDates == DOMAIN Input.data

\* The call returned a frame for a granularity the selectboxes offer.
ReturnedOk == pc = "returned" /\ ret.raised = "none" /\ freq_arg \in Granularities

\* The input records in the bucket of output row i.
RecordsOf(i) ==
    {d \in InputDates : Bucket(freq_arg, d) = Bucket(freq_arg, ret.value[i].date.num)}

\* The output rows of the bucket that starts at b.
RowsOf(b) == {i \in DOMAIN ret.value : Bucket(freq_arg, ret.value[i].date.num) = b}

\* C1: in every bucket that holds records, a variable whose values are all
\* missing is reported as missing, in the bucket's one row, and the variables
\* that have a value there are reported.
C1_MissingStaysMissing ==
    ReturnedOk =>
        \A b \in {Bucket(freq_arg, d) : d \in InputDates} :
            /\ Cardinality(RowsOf(b)) = 1
            /\ \A i \in RowsOf(b) : \A col \in AggColumns :
                  ret.value[i][col].nan <=> \A d \in RecordsOf(i) : Input.data[d][col].nan

\* C2 as claimed: a granularity outside Daily, Weekly, Monthly, Yearly is
\* refused with InvalidArgument.
C2_UnknownIsRefused ==
    (pc = "returned" /\ freq_arg \notin Granularities) => ret.raised = "InvalidArgument"

\* C2 amended: a granularity outside Daily, Weekly, Monthly, Yearly is not
\* refused; the call behaves as for Daily: on a frame with rows it returns one
\* row per calendar day from the first date to the last, and on every frame it
\* returns or raises what the Daily call does.
C2_UnknownIsDaily ==
    (pc = "returned" /\ freq_arg \notin Granularities) =>
        LET daily == aggregate_data([arg |-> Input], "arg", "Daily")
        IN  /\ ret = [raised |-> daily.raised, value |-> daily.value]
            /\ ~empty(Input) =>
                  /\ ret.raised = "none"
                  /\ Len(ret.value) = SetMax(InputDates) - SetMin(InputDates) + 1
                  /\ \A i \in DOMAIN ret.value :
                        ret.value[i].date.num = SetMin(InputDates) + i - 1

\* C2, reached: a call with the token "Hourly" on a frame of two or more days
\* has returned two or more rows.
C2_Witness ==
    /\ pc = "returned"
    /\ freq_arg = "Hourly"
    /\ Cardinality(InputDates) >= 2
    /\ Len(ret.value) >= 2

\* C3: the output has exactly one row per bucket that holds an input record,
\* so no row for a period without records and no more rows than records.
C3_OneRowPerBucket ==
    ReturnedOk =>
        /\ Len(ret.value) = Cardinality({Bucket(freq_arg, d) : d \in InputDates})
        /\ Len(ret.value) <= Cardinality(InputDates)
        /\ \A i \in DOMAIN ret.value : RecordsOf(i) # {}

\* C4 as claimed: for Weekly, Monthly and Yearly the key of a row is the start
\* of its bucket, at or before every record of the bucket.
C4_KeyIsBucketStart ==
    (ReturnedOk /\ freq_arg # "Daily") =>
        \A i \in DOMAIN ret.value :
            /\ ret.value[i].date.num = Bucket(freq_arg, ret.value[i].date.num)
            /\ \A d \in RecordsOf(i) : ret.value[i].date.num <= d

\* C4 amended: for Weekly, Monthly and Yearly the key of a row is the last day
\* of its bucket (the Sunday of the ISO week, the last day of the month,
\* December 31), at or after every record of the bucket, and every record's
\* bucket has such a row.
C4_KeyIsBucketEnd ==
    (ReturnedOk /\ freq_arg # "Daily") =>
        /\ \A i \in DOMAIN ret.value :
              LET key == ret.value[i].date.num
              IN  /\ Bucket(freq_arg, key + 1) = key + 1
                  /\ freq_arg = "Weekly" => Weekday(key) = 6
                  /\ freq_arg = "Monthly" => CivilFromDays(key + 1).d = 1
                  /\ freq_arg = "Yearly" =>
                        CivilFromDays(key).m = 12 /\ CivilFromDays(key).d = 31
                  /\ \A d \in RecordsOf(i) : d <= key
        /\ \A d \in InputDates : RowsOf(Bucket(freq_arg, d)) # {}

\* C4, reached: a Weekly call has returned a row whose bucket holds a Monday
\* record, dated before the row's key.
C4_Witness ==
    /\ ReturnedOk
    /\ freq_arg = "Weekly"
    /\ \E i \in DOMAIN ret.value : \E d \in RecordsOf(i) :
          Weekday(d) = 0 /\ d < ret.value[i].date.num

\* C5: on an empty frame the call returns an empty frame and raises nothing.
C5_EmptyGivesEmpty ==
    (pc = "returned" /\ empty(Input)) => (ret.raised = "none" /\ ret.value = <<>>)

\* The rainfall values of the records S that are not missing, as a sequence
\* in date order.
RECURSIVE Rainfall(_)
Rainfall(S) ==
    IF S = {} THEN <<>>
    ELSE LET d == SetMin(S)
             v == Input.data[d].precipitation_sum
         IN  (IF v.nan THEN <<>> ELSE <<v.num>>) \o Rainfall(S \ {d})

RECURSIVE Total(_)
Total(q) == IF q = <<>> THEN 0 ELSE Head(q) + Total(Tail(q))

\* The rainfall statistics an output row carries.
RainfallColumns == {"precipitation_sum"}

RainfallStats(i) == {ret.value[i][c] : c \in RainfallColumns}

\* The January scenario: 2024-01-01..03 with rainfall 0, 5, 10.
IsScenario ==
    /\ InputDates = {DaysFromCivil(2024, 1, 1), DaysFromCivil(2024, 1, 2),
                     DaysFromCivil(2024, 1, 3)}
    /\ Rainfall(InputDates) = <<0, 5, 10>>

\* C6 as claimed: each row reports the minimum, the mean and the maximum of
\* the rainfall of its bucket's records.
C6_RainfallMinMeanMax ==
    ReturnedOk =>
        \A i \in DOMAIN ret.value :
            LET q == Rainfall(RecordsOf(i))
                nums == {q[j] : j \in DOMAIN q}
            IN  q # <<>> =>
                   {Num(SetMin(nums)), Ratio(Total(q), Len(q)), Num(SetMax(nums))}
                       \subseteq RainfallStats(i)

\* C6 amended: each row reports rainfall as one value, the sum of the
\* non-missing rainfall of its bucket's records, which equals the sum
\* recomputed over those records; in the January scenario with Yearly the one
\* row, keyed 2024-12-31, carries the sum 15.
C6_RainfallIsSum ==
    ReturnedOk =>
        /\ \A i \in DOMAIN ret.value :
              RainfallStats(i) = {Num(Total(Rainfall(RecordsOf(i))))}
        /\ (IsScenario /\ freq_arg = "Yearly") =>
              /\ Len(ret.value) = 1
              /\ ret.value[1].date.num = DaysFromCivil(2024, 12, 31)
              /\ ret.value[1].precipitation_sum = Num(15)

\* C6, reached: the Yearly call on the January scenario has returned one row.
C6_Witness ==
    /\ ReturnedOk
    /\ IsScenario
    /\ freq_arg = "Yearly"
    /\ Len(ret.value) = 1

----------------------------------------------------------------------------
(* Properties of the script, stated for Spec *)

\* The argument tuple of this run's fetch for region.
RunKey(region) == Key(region, start_date, end_date)

\* What aggregate_data returns for a frame nothing else refers to.
Alone(df, freq) == aggregate_data([arg |-> df], "arg", freq)

\* C8: whatever aggregate_data calls the run has made, each frame of data_dict
\* is the frame the fetch returned, no call has raised, and each result kept
\* (the download list, agg_data_dict) is the result of the call on the fetched
\* frame alone.
C8_InputUnchanged ==
    /\ raised = "none"
    /\ \A r \in DOMAIN data_dict : heap[data_dict[r]] = cache[RunKey(r)]
    /\ \A i \in DOMAIN parts :
          parts[i] = Alone(cache[RunKey(InOrder(coords, data_dict)[i])], download_freq).value
    /\ \A r \in DOMAIN agg_data_dict :
          agg_data_dict[r] = Alone(cache[RunKey(r)], plot_freq).value

\* C8, reached: a run has finished after aggregating both regions Monthly
\* for the download and Weekly for the plots.
C8_Witness ==
    /\ pc = "done"
    /\ DOMAIN agg_data_dict = Regions
    /\ Len(parts) = Cardinality(Regions)
    /\ plot_freq = "Weekly"
    /\ download_freq = "Monthly"

\* C9: no argument tuple is requested twice, a tuple has been requested
\* exactly when a call with it has returned, and every return of
\* get_weather_data is the frame its first call with those arguments
\* returned, the empty frame of a failed request included.
C9_AtMostOneRequest ==
    /\ \A k \in Keys :
          /\ http_requests[k] <= 1
          /\ http_requests[k] = 1 <=> k \in DOMAIN first_result
    /\ last_fetch # NoFetch => last_fetch[2] = first_result[last_fetch[1]]

\* C9, reached: a call was served from the cache with the empty frame of a
\* failed request, after the one request for its arguments.
C9_Witness ==
    /\ last_fetch # NoFetch
    /\ last_fetch[2] = EmptyDataFrame
    /\ last_fetch[3] = "cached"
    /\ http_requests[last_fetch[1]] = 1

\* C10: aggregate_data is only called on a frame with rows; data_dict holds
\* exactly the regions visited so far whose fetch returned such a frame; the
\* run goes past line 183 only with data, and a stopped run has aggregated,
\* concatenated and plotted nothing.
C10_NeverAggregatesEmpty ==
    /\ last_call # NoCall => ~empty(last_call.df)
    /\ \A r \in DOMAIN data_dict : ~empty(heap[data_dict[r]])
    /\ \A i \in DOMAIN coords :
          (pc # "fetch" \/ i <= Len(coords) - Len(todo)) =>
              (coords[i] \in DOMAIN data_dict <=> ~empty(cache[RunKey(coords[i])]))
    /\ pc \in {"download", "plot", "done"} => DOMAIN data_dict # {}
    /\ DOMAIN data_dict = {} =>
          /\ pc \in {"idle", "fetch", "stopped"}
          /\ last_call = NoCall
          /\ parts = <<>> /\ download_df = <<>> /\ agg_data_dict = <<>>
    /\ pc # "crashed"

\* C10, reached: a run with both regions selected has stopped at line 183
\* because every fetch returned the empty frame.
C10_Witness ==
    /\ pc = "stopped"
    /\ Len(coords) = Cardinality(Regions)
    /\ \A r \in Regions : cache[RunKey(r)] = EmptyDataFrame

====
